---------------------------- MODULE Spec2Model ----------------------------
(***************************************************************************)
(* A model of quantlab.fixed_income: day-count year fractions, the         *)
(* zero-rate DiscountCurve and the Bond (coupon schedule, cashflows,       *)
(* accrued interest, curve pricing, the bisection yield solve and         *)
(* from_quote), and the Portfolio (pv, dv01) behind validate_inputs.       *)
(*                                                                         *)
(* Representation.                                                         *)
(*   date      <<year, month, day>>, ordered as (year, month, day)         *)
(*   float     non-integral quantities are exact rationals [num, den]      *)
(*             or fixed-point integers:                                    *)
(*               zero rate    units of 1/200   (6 = 0.03, 7 = 0.035)       *)
(*               coupon rate  units of 1/10000 (500 = 0.05)                *)
(*               yield        units of 1/10000 (-1000 = -0.10)             *)
(*               money        units of 1/1000000 (2500000 = 2.5)           *)
(*               discount     units of 1/10000 (10000 = 1.0)               *)
(*   exception a call's outcome is a record whose err field names the      *)
(*             exception class raised ("none" when the call returns); an   *)
(*             uncaught exception ends the run.                            *)
(*   exp, **   exp(-x) is its alternating series in fixed point; the power *)
(*             of price_from_ytm divides by the base once per whole period *)
(*             and by a linear stub for the fractional period, so a yield  *)
(*             solve converges only for targets on the yield grid.         *)
(***************************************************************************)
EXTENDS Integers, Sequences, FiniteSets, TLC

VARIABLES bond, curve, call, ytm, portfolio

vars == <<bond, curve, call, ytm, portfolio>>

-----------------------------------------------------------------------------
(* Fixed-point scales (units per 1.0).                                     *)

DfScale == 10 * 1000
RateUnits == 2 * 100
YieldUnits == 10 * 1000
MoneyUnits == 1000 * 1000
CouponRateUnits == 10 * 1000

(* Encodings of the non-finite floats a caller may pass as a rate.         *)
FloatInf == 1000 * 1000
FloatNaN == 1000 * 1000 + 1

Abs(n) == IF n < 0 THEN -n ELSE n

Min(a, b) == IF a <= b THEN a ELSE b

-----------------------------------------------------------------------------
(* datetime.date                                                           *)

IsLeap(y) == (y % 4 = 0 /\ y % 100 # 0) \/ y % 400 = 0

DaysInMonth(y, m) ==
    IF m = 2 THEN (IF IsLeap(y) THEN 29 ELSE 28)
    ELSE IF m \in {4, 6, 9, 11} THEN 30 ELSE 31

DaysBeforeMonth(y, m) ==
    <<0, 31, 59, 90, 120, 151, 181, 212, 243, 273, 304, 334>>[m]
        + (IF m > 2 /\ IsLeap(y) THEN 1 ELSE 0)

DaysBeforeYear(y) ==
    (y - 1) * 365 + ((y - 1) \div 4) - ((y - 1) \div 100) + ((y - 1) \div 400)

(* date.toordinal() *)
ToOrdinal(d) == DaysBeforeYear(d[1]) + DaysBeforeMonth(d[1], d[2]) + d[3]

(* a < b and a <= b on dates: by (year, month, day) *)
DateLT(a, b) ==
    \/ a[1] < b[1]
    \/ a[1] = b[1] /\ a[2] < b[2]
    \/ a[1] = b[1] /\ a[2] = b[2] /\ a[3] < b[3]

DateLE(a, b) == a = b \/ DateLT(a, b)

(* (b - a).days *)
DaysBetween(a, b) == ToOrdinal(b) - ToOrdinal(a)

(* year * 12 + month, the month index used to measure schedule spacing *)
MonthIndex(d) == d[1] * 12 + d[2]

(* d - relativedelta(months=k): shift the month, clamp the day to the end  *)
(* of the target month.                                                    *)
SubMonths(d, k) ==
    LET mi == d[1] * 12 + (d[2] - 1) - k
        y  == mi \div 12
        m  == (mi % 12) + 1
    IN <<y, m, Min(d[3], DaysInMonth(y, m))>>

(* sorted(S) for a set of distinct dates *)
RECURSIVE SortDates(_)
SortDates(S) ==
    IF S = {} THEN <<>>
    ELSE LET m == CHOOSE x \in S : \A y \in S : DateLE(x, y)
         IN <<m>> \o SortDates(S \ {m})

-----------------------------------------------------------------------------
(* Exact rationals for float expressions.                                  *)

RECURSIVE Gcd(_, _)
Gcd(a, b) == IF b = 0 THEN a ELSE Gcd(b, a % b)

Rat(n, d) ==
    LET g == Gcd(Abs(n), Abs(d))
        s == IF d < 0 THEN -1 ELSE 1
    IN IF n = 0 THEN [num |-> 0, den |-> 1]
       ELSE [num |-> s * (n \div g), den |-> s * (d \div g)]

RatAdd(a, b) == Rat(a.num * b.den + b.num * a.den, a.den * b.den)

RatSub(a, b) == Rat(a.num * b.den - b.num * a.den, a.den * b.den)

RatMul(a, b) ==
    LET x == Rat(a.num, b.den)
        y == Rat(b.num, a.den)
    IN Rat(x.num * y.num, x.den * y.den)

RatDiv(a, b) == RatMul(a, Rat(b.den, b.num))

(* a <= b, by comparing integer parts and then the reciprocals of the      *)
(* fractional parts (no product of the two denominators is formed).        *)
RECURSIVE RatLE(_, _)
RatLE(a, b) ==
    LET qa == a.num \div a.den
        qb == b.num \div b.den
        ra == a.num % a.den
        rb == b.num % b.den
    IN IF qa # qb THEN qa < qb
       ELSE IF ra = 0 THEN TRUE
       ELSE IF rb = 0 THEN FALSE
       ELSE RatLE([num |-> b.den, den |-> rb], [num |-> a.den, den |-> ra])

RatLT(a, b) == ~RatLE(b, a)

(* floor(a * b / c) for a, b >= 0 and c > 0 without forming a * b *)
MulDiv(a, b, c) == (a \div c) * b + ((a % c) * b) \div c

(* floor(x * 10^k) of a rational 0 <= x, digit by digit *)
RECURSIVE FixDigits(_, _, _)
FixDigits(n, d, k) ==
    IF k = 0 THEN n \div d
    ELSE (n \div d) * (10 ^ k) + FixDigits((n % d) * 10, d, k - 1)

(* math.exp(-x) for x >= 0 given in DfScale units: the alternating series  *)
(* 1 - x + x^2/2! - ... summed in fixed point until the term vanishes.     *)
RECURSIVE ExpSeries(_, _, _)
ExpSeries(x, term, k) ==
    IF term = 0 THEN 0
    ELSE LET nxt == (term * x) \div (k * DfScale)
         IN term - nxt + (IF nxt = 0 THEN 0
                          ELSE ExpSeries(x, (nxt * x) \div ((k + 1) * DfScale), k + 2))

ExpNeg(x) == ExpSeries(x, DfScale, 1)

-----------------------------------------------------------------------------
(* daycount.year_fraction                                                  *)

ACT_365F == "ACT/365F"
ACT_ACT == "ACT/ACT"
THIRTY_360 == "30/360"

year_fraction(d1, d2, convention) ==
    IF DateLT(d2, d1) THEN [err |-> "ValueError", val |-> Rat(0, 1)]
    ELSE IF convention = ACT_365F
        THEN [err |-> "none", val |-> Rat(DaysBetween(d1, d2), 365)]
    ELSE IF convention = ACT_ACT
        THEN [err |-> "none", val |-> Rat(DaysBetween(d1, d2) * 4, 1461)]
    ELSE IF convention = THIRTY_360
        THEN LET d1_day == Min(d1[3], 30)
                 d2_day == Min(d2[3], 30)
             IN [err |-> "none",
                 val |-> Rat((d2[1] - d1[1]) * 360 + (d2[2] - d1[2]) * 30
                             + (d2_day - d1_day), 360)]
    ELSE [err |-> "ValueError", val |-> Rat(0, 1)]

-----------------------------------------------------------------------------
(* curve.DiscountCurve                                                     *)

NoCurve == [kind |-> "None"]

isfinite(r) == r \notin {FloatInf, FloatNaN}

(* A raised exception: no object is produced. *)
Raise(e) == [err |-> e, obj |-> [kind |-> "None"]]

DiscountCurve_init(valuation_date, pillar_dates, zero_rates) ==
    IF Len(pillar_dates) # Len(zero_rates)
        THEN Raise("CurveConstructionError")
    ELSE IF \E i \in 1..(Len(pillar_dates) - 1) :
                DateLE(pillar_dates[i + 1], pillar_dates[i])
        THEN Raise("CurveConstructionError")
    ELSE IF \E i \in 1..Len(zero_rates) :
                ~isfinite(zero_rates[i]) \/ zero_rates[i] < 0
        THEN Raise("CurveConstructionError")
    ELSE [err |-> "none",
          obj |-> [kind |-> "DiscountCurve",
                   valuation_date |-> valuation_date,
                   pillar_dates |-> pillar_dates,
                   zero_rates |-> zero_rates]]

(* zero_curve is a mapping date -> rate, here a function on a set of dates *)
from_zero_rates(valuation_date, zero_curve) ==
    IF DOMAIN zero_curve = {}
        THEN Raise("CurveConstructionError")
    ELSE LET pillar_dates == SortDates(DOMAIN zero_curve)
             zero_rates == [i \in 1..Len(pillar_dates) |-> zero_curve[pillar_dates[i]]]
         IN DiscountCurve_init(valuation_date, pillar_dates, zero_rates)

flat(rate, valuation_date) ==
    IF (isfinite(rate) /\ rate < 0) \/ ~isfinite(rate)
        THEN Raise("CurveConstructionError")
    ELSE DiscountCurve_init(valuation_date, <<valuation_date>>, <<rate>>)

(* A zero rate as a rational number *)
RateOf(r) == Rat(r, RateUnits)

(* r1 + (r2 - r1) * (t - t1) / (t2 - t1) *)
Interp(r1, r2, t1, t2, t) ==
    RatAdd(r1, RatDiv(RatMul(RatSub(r2, r1), RatSub(t, t1)), RatSub(t2, t1)))

(* exp(-r * t): x is the exact product r * t, val the discount factor in   *)
(* DfScale units.                                                          *)
Discount(r, t) ==
    LET x == RatMul(r, t)
    IN [err |-> "none", x |-> x, val |-> ExpNeg(FixDigits(x.num, x.den, 4))]

DfRaise(e) == [err |-> e, x |-> Rat(0, 1), val |-> 0]

LastRateMutant(zero_rates) == zero_rates[1]

(* self.zero_rates[-1] *)
LastRate(zero_rates) == zero_rates[Len(zero_rates)]

df(self, at_date) ==
    LET pd == self.pillar_dates
        zr == self.zero_rates
        vd == self.valuation_date
        Between == {i \in 2..Len(pd) : DateLT(pd[i - 1], at_date) /\ DateLT(at_date, pd[i])}
    IN IF DateLT(at_date, vd) THEN DfRaise("InterpolationError")
       ELSE IF \E i \in 1..Len(pd) : pd[i] = at_date
           THEN LET i == CHOOSE j \in 1..Len(pd) :
                            pd[j] = at_date /\ \A k \in 1..(j - 1) : pd[k] # at_date
                IN Discount(RateOf(zr[i]), year_fraction(vd, at_date, ACT_365F).val)
       ELSE IF Between # {}
           THEN LET i == CHOOSE j \in Between : \A k \in Between : j <= k
                    t1 == year_fraction(vd, pd[i - 1], ACT_365F)
                    t2 == year_fraction(vd, pd[i], ACT_365F)
                    t  == year_fraction(vd, at_date, ACT_365F)
                IN IF t1.err # "none" THEN DfRaise(t1.err)
                   ELSE IF t2.err # "none" THEN DfRaise(t2.err)
                   ELSE Discount(Interp(RateOf(zr[i - 1]), RateOf(zr[i]),
                                        t1.val, t2.val, t.val), t.val)
       ELSE IF Len(zr) = 0 THEN DfRaise("IndexError")
       ELSE Discount(RateOf(LastRate(zr)), year_fraction(vd, at_date, ACT_365F).val)

-----------------------------------------------------------------------------
(* bond.Bond                                                               *)

None == [kind |-> "None"]

(* self.PILLAR_DATES: the fixed table {2025-01-01: 0.03, 2026-01-01:       *)
(* 0.035, 2027-01-01: 0.04} every bond carries.                            *)
PILLAR_DATES ==
    [d \in {<<2025, 1, 1>>, <<2026, 1, 1>>, <<2027, 1, 1>>} |->
        IF d = <<2025, 1, 1>> THEN 6 ELSE IF d = <<2026, 1, 1>> THEN 7 ELSE 8]

Bond_validate(self) ==
    IF DateLE(self.maturity_date, self.issue_date) THEN "BondValidationError"
    ELSE IF self.coupon_rate < 0 THEN "BondValidationError"
    ELSE IF self.frequency \notin {1, 2, 4} THEN "BondValidationError"
    ELSE IF self.face <= 0 THEN "BondValidationError"
    ELSE "none"

(* Bond(issue_date, maturity_date, zero_rate, coupon_rate, frequency, face) *)
(* with the defaults day_count='ACT/365', ex_coupon_days=0; zero_rate is   *)
(* not stored.                                                             *)
Bond_init(issue_date, maturity_date, coupon_rate, frequency, face) ==
    LET self == [kind |-> "Bond",
                 issue_date |-> issue_date,
                 maturity_date |-> maturity_date,
                 coupon_rate |-> coupon_rate,
                 frequency |-> frequency,
                 face |-> face,
                 day_count |-> "ACT/365",
                 ex_coupon_days |-> 0,
                 PILLAR_DATES |-> PILLAR_DATES,
                 ytm |-> None]
        e == Bond_validate(self)
    IN IF e # "none" THEN Raise(e) ELSE [err |-> "none", obj |-> self]

(* The while loop of _get_all_coupon_dates: the dates appended, walking    *)
(* back from current_date while it is after issue_date.                    *)
RECURSIVE WalkBack(_, _, _)
WalkBack(current_date, issue_date, months_step) ==
    IF DateLT(issue_date, current_date)
    THEN <<current_date>> \o WalkBack(SubMonths(current_date, months_step),
                                      issue_date, months_step)
    ELSE <<>>

SeqToSet(q) == {q[i] : i \in 1..Len(q)}

get_all_coupon_dates_NoIssue(self) ==
    SortDates(SeqToSet(WalkBack(self.maturity_date, self.issue_date,
                                12 \div self.frequency)))

get_all_coupon_dates(self) ==
    LET months_step == 12 \div self.frequency
        dates == WalkBack(self.maturity_date, self.issue_date, months_step)
                 \o <<self.issue_date>>
    IN SortDates(SeqToSet(dates))

(* coupon_rate * face / frequency, in money units *)
CouponAmount(self) ==
    (self.coupon_rate * self.face * (MoneyUnits \div CouponRateUnits))
        \div self.frequency

(* (date, amount) tuples ordered as Python orders them *)
PairLE(a, b) ==
    \/ DateLT(a[1], b[1])
    \/ a[1] = b[1] /\ a[2] <= b[2]

RECURSIVE InsertPair(_, _)
InsertPair(q, x) ==
    IF q = <<>> THEN <<x>>
    ELSE IF PairLE(x, Head(q)) THEN <<x>> \o q
    ELSE <<Head(q)>> \o InsertPair(Tail(q), x)

RECURSIVE SortPairs(_)
SortPairs(q) ==
    IF q = <<>> THEN <<>> ELSE InsertPair(SortPairs(Tail(q)), Head(q))

IsFutureMutant(d, valuation_date) == DateLE(valuation_date, d)

(* d > valuation_date *)
IsFuture(d, valuation_date) == DateLT(valuation_date, d)

RECURSIVE FutureCfs(_, _, _, _)
FutureCfs(self, all_dates, valuation_date, coupon_amount) ==
    IF all_dates = <<>> THEN <<>>
    ELSE LET d == Head(all_dates)
             rest == FutureCfs(self, Tail(all_dates), valuation_date, coupon_amount)
         IN IF IsFuture(d, valuation_date)
            THEN <<(<<d, IF d = self.maturity_date
                         THEN coupon_amount + self.face * MoneyUnits
                         ELSE coupon_amount>>)>> \o rest
            ELSE rest

cashflows(self, valuation_date) ==
    IF DateLE(self.maturity_date, valuation_date)
    THEN [err |-> "BondValidationError", val |-> <<>>]
    ELSE [err |-> "none",
          val |-> SortPairs(FutureCfs(self, get_all_coupon_dates(self),
                                      valuation_date, CouponAmount(self)))]

(* The for loop of accrued over the sorted schedule, from index i on:      *)
(* <<prev_coupon_date, next_coupon_date>> when it ends or breaks.          *)
RECURSIVE Bracket(_, _, _, _, _)
Bracket(all_dates, i, valuation_date, prev, next) ==
    IF i > Len(all_dates) THEN <<prev, next>>
    ELSE LET d == all_dates[i]
             p == IF DateLE(d, valuation_date) THEN d ELSE prev
         IN IF DateLT(valuation_date, d) THEN <<p, d>>
            ELSE Bracket(all_dates, i + 1, valuation_date, p, next)

AccruedFractionMutant(days_accrued, days_in_period, coupon_amount) ==
    MulDiv(coupon_amount, days_in_period - days_accrued, days_in_period)

(* days_accrued / days_in_period * coupon_amount *)
AccruedFraction(days_accrued, days_in_period, coupon_amount) ==
    MulDiv(coupon_amount, days_accrued, days_in_period)

accrued(self, valuation_date) ==
    IF DateLE(self.maturity_date, valuation_date)
       \/ DateLT(valuation_date, self.issue_date)
    THEN 0
    ELSE LET all_dates == get_all_coupon_dates(self)
             coupon_amount == CouponAmount(self)
             b == Bracket(all_dates, 1, valuation_date,
                          self.issue_date, self.maturity_date)
             days_in_period == DaysBetween(b[1], b[2])
             days_accrued == DaysBetween(b[1], valuation_date)
         IN IF valuation_date = b[1] THEN 0
            ELSE IF days_in_period = 0 THEN 0
            ELSE AccruedFraction(days_accrued, days_in_period, coupon_amount)

(* np.sum(dfs * cfs) with dfs = [c.df(cf_date) for cf_date, _ in cfs]; the *)
(* first df that raises ends the evaluation.                               *)
RECURSIVE DiscountedSum(_, _)
DiscountedSum(c, cfs) ==
    IF cfs = <<>> THEN [err |-> "none", val |-> 0]
    ELSE LET f == df(c, Head(cfs)[1])
             rest == DiscountedSum(c, Tail(cfs))
         IN IF f.err # "none" THEN [err |-> f.err, val |-> 0]
            ELSE IF rest.err # "none" THEN rest
            ELSE [err |-> "none",
                  val |-> MulDiv(Head(cfs)[2], f.val, DfScale) + rest.val]

(* pv - accrued_amt if clean else pv *)
CleanAdjust(pv, accrued_amt, clean) == IF clean THEN pv - accrued_amt ELSE pv

(* Bond.price(curve, valuation_date, clean): the curve argument is not     *)
(* read; the discount curve is rebuilt from self.PILLAR_DATES.             *)
price(self, supplied_curve, valuation_date, clean) ==
    LET all_cashflows == cashflows(self, valuation_date)
        dfs_curve == from_zero_rates(valuation_date, self.PILLAR_DATES)
        pv == DiscountedSum(dfs_curve.obj, all_cashflows.val)
    IN IF all_cashflows.err # "none" THEN [err |-> all_cashflows.err, val |-> 0]
       ELSE IF dfs_curve.err # "none" THEN [err |-> dfs_curve.err, val |-> 0]
       ELSE IF pv.err # "none" THEN [err |-> pv.err, val |-> 0]
       ELSE [err |-> "none",
             val |-> CleanAdjust(pv.val, accrued(self, valuation_date), clean)]

(* 1.0 / ((1.0 + ytm / frequency) ** exponent) for a base > 0, in DfScale  *)
(* units.  exponent = t_days / 365.25 * frequency = whole + part / 1461;   *)
(* the whole periods divide by the base one at a time and the fractional   *)
(* period divides by 1 + (part / 1461) * ytm / frequency.                  *)
RECURSIVE DivideBy(_, _, _)
DivideBy(d, base, n) ==
    IF n = 0 THEN d ELSE DivideBy((d * DfScale) \div base, base, n - 1)

YtmDiscount(ytm_, t_days, frequency) ==
    LET per_period == ytm_ \div frequency
        whole == (t_days * frequency * 4) \div 1461
        part == (t_days * frequency * 4) % 1461
        stub == DfScale + (part * per_period) \div 1461
    IN DivideBy((DfScale * DfScale) \div stub, DfScale + per_period, whole)

(* Bond.price_from_ytm(ytm, cashflows, valuation_date, frequency) *)
RECURSIVE price_from_ytm(_, _, _, _)
price_from_ytm(ytm_, cfs, valuation_date, frequency) ==
    IF cfs = <<>> THEN 0
    ELSE MulDiv(Head(cfs)[2],
                YtmDiscount(ytm_, DaysBetween(valuation_date, Head(cfs)[1]), frequency),
                DfScale)
         + price_from_ytm(ytm_, Tail(cfs), valuation_date, frequency)

(* yield_to_maturity: low_yield = -0.10, high_yield = 5.0,                 *)
(* tolerance = 0.000001, range(1000).                                      *)
LowYield == -1000
HighYield == 50000
Tolerance == 1
MaxIterations == 1000

Midpoint(low_yield, high_yield) == (low_yield + high_yield) \div 2

(* abs(price_diff) < tolerance *)
Converged(price_diff) == Abs(price_diff) < Tolerance

-----------------------------------------------------------------------------
(* State: the objects of one run and its last call.  An exception is not   *)
(* caught anywhere, so the run ends at the first call that raises.         *)

NoBond == None

NoCall == [op |-> "none", args |-> <<>>, err |-> "none", ret |-> 0]

NoLoop == [pc |-> "idle"]

NoPortfolio == None

Running == call.err = "none" /\ ytm.pc # "loop"

Init ==
    /\ bond = NoBond
    /\ curve = NoCurve
    /\ call = NoCall
    /\ ytm = NoLoop
    /\ portfolio = NoPortfolio

(* DiscountCurve(valuation_date, pillar_dates, zero_rates) *)
NewCurve(valuation_date, pillar_dates, zero_rates) ==
    /\ Running
    /\ curve = NoCurve
    /\ LET r == DiscountCurve_init(valuation_date, pillar_dates, zero_rates)
       IN /\ curve' = r.obj
          /\ call' = [op |-> "DiscountCurve",
                      args |-> <<valuation_date, pillar_dates, zero_rates>>,
                      err |-> r.err, ret |-> 0]
    /\ UNCHANGED <<bond, ytm, portfolio>>

(* DiscountCurve.from_zero_rates(valuation_date, zero_curve) *)
FromZeroRates(valuation_date, zero_curve) ==
    /\ Running
    /\ curve = NoCurve
    /\ LET r == from_zero_rates(valuation_date, zero_curve)
       IN /\ curve' = r.obj
          /\ call' = [op |-> "from_zero_rates",
                      args |-> <<valuation_date, zero_curve>>,
                      err |-> r.err, ret |-> 0]
    /\ UNCHANGED <<bond, ytm, portfolio>>

(* DiscountCurve.flat(rate, valuation_date) *)
Flat(rate, valuation_date) ==
    /\ Running
    /\ curve = NoCurve
    /\ LET r == flat(rate, valuation_date)
       IN /\ curve' = r.obj
          /\ call' = [op |-> "flat", args |-> <<rate, valuation_date>>,
                      err |-> r.err, ret |-> 0]
    /\ UNCHANGED <<bond, ytm, portfolio>>

(* curve.df(at_date) *)
Df(at_date) ==
    /\ Running
    /\ curve # NoCurve
    /\ LET r == df(curve, at_date)
       IN call' = [op |-> "df", args |-> <<at_date>>, err |-> r.err,
                   ret |-> [x |-> r.x, val |-> r.val]]
    /\ UNCHANGED <<bond, curve, ytm, portfolio>>

(* year_fraction(d1, d2, convention) *)
YearFraction(d1, d2, convention) ==
    /\ Running
    /\ LET r == year_fraction(d1, d2, convention)
       IN call' = [op |-> "year_fraction", args |-> <<d1, d2, convention>>,
                   err |-> r.err, ret |-> r.val]
    /\ UNCHANGED <<bond, curve, ytm, portfolio>>

(* Bond(issue_date, maturity_date, zero_rate, coupon_rate, frequency, face) *)
NewBond(issue_date, maturity_date, coupon_rate, frequency, face) ==
    /\ Running
    /\ bond = NoBond
    /\ LET r == Bond_init(issue_date, maturity_date, coupon_rate, frequency, face)
       IN /\ bond' = r.obj
          /\ call' = [op |-> "Bond",
                      args |-> <<issue_date, maturity_date, coupon_rate, frequency, face>>,
                      err |-> r.err, ret |-> 0]
    /\ UNCHANGED <<curve, ytm, portfolio>>

(* bond._get_all_coupon_dates() *)
CouponDates ==
    /\ Running
    /\ bond # NoBond
    /\ call' = [op |-> "_get_all_coupon_dates", args |-> <<>>, err |-> "none",
                ret |-> get_all_coupon_dates(bond)]
    /\ UNCHANGED <<bond, curve, ytm, portfolio>>

(* bond.cashflows(valuation_date) *)
Cashflows(valuation_date) ==
    /\ Running
    /\ bond # NoBond
    /\ LET r == cashflows(bond, valuation_date)
       IN call' = [op |-> "cashflows", args |-> <<valuation_date>>,
                   err |-> r.err, ret |-> r.val]
    /\ UNCHANGED <<bond, curve, ytm, portfolio>>

(* bond.accrued(valuation_date) *)
Accrued(valuation_date) ==
    /\ Running
    /\ bond # NoBond
    /\ call' = [op |-> "accrued", args |-> <<valuation_date>>, err |-> "none",
                ret |-> accrued(bond, valuation_date)]
    /\ UNCHANGED <<bond, curve, ytm, portfolio>>

(* bond.price(curve, valuation_date, clean) *)
Price(valuation_date, clean) ==
    /\ Running
    /\ bond # NoBond
    /\ curve # NoCurve
    /\ LET r == price(bond, curve, valuation_date, clean)
       IN call' = [op |-> "price", args |-> <<valuation_date, clean>>,
                   err |-> r.err, ret |-> r.val]
    /\ UNCHANGED <<bond, curve, ytm, portfolio>>

(* bond.yield_to_maturity(price, valuation_date, is_dirty), up to the loop *)
YieldToMaturity(price_, valuation_date, is_dirty) ==
    /\ Running
    /\ bond # NoBond
    /\ LET dirty_price == IF is_dirty THEN price_
                          ELSE price_ + accrued(bond, valuation_date)
           cfs == cashflows(bond, valuation_date)
           args == <<price_, valuation_date, is_dirty>>
       IN IF cfs.err # "none"
          THEN /\ call' = [op |-> "yield_to_maturity", args |-> args,
                           err |-> cfs.err, ret |-> 0]
               /\ ytm' = NoLoop
          ELSE IF cfs.val = <<>>
          THEN /\ call' = [op |-> "yield_to_maturity", args |-> args,
                           err |-> "none", ret |-> 0]
               /\ ytm' = NoLoop
          ELSE /\ call' = [op |-> "yield_to_maturity", args |-> args,
                           err |-> "none", ret |-> 0]
               /\ ytm' = [pc |-> "loop", i |-> 0,
                          low_yield |-> LowYield, high_yield |-> HighYield,
                          mid_yield |-> 0, price_at_mid |-> 0,
                          dirty_price |-> dirty_price, cfs |-> cfs.val,
                          valuation_date |-> valuation_date]
    /\ UNCHANGED <<bond, curve, portfolio>>

(* One pass of the for loop: evaluate the midpoint and return it or halve  *)
(* the bracket.                                                            *)
YtmIterate ==
    /\ ytm.pc = "loop"
    /\ ytm.i < MaxIterations
    /\ LET mid_yield == Midpoint(ytm.low_yield, ytm.high_yield)
           price_at_mid == price_from_ytm(mid_yield, ytm.cfs, ytm.valuation_date,
                                          bond.frequency)
           price_diff == price_at_mid - ytm.dirty_price
           seen == [ytm EXCEPT !.i = ytm.i + 1, !.mid_yield = mid_yield,
                               !.price_at_mid = price_at_mid]
       IN IF Converged(price_diff)
          THEN /\ ytm' = [seen EXCEPT !.pc = "returned"]
               /\ call' = [call EXCEPT !.ret = mid_yield]
          ELSE IF price_diff > 0
          THEN /\ ytm' = [seen EXCEPT !.low_yield = mid_yield]
               /\ call' = call
          ELSE /\ ytm' = [seen EXCEPT !.high_yield = mid_yield]
               /\ call' = call
    /\ UNCHANGED <<bond, curve, portfolio>>

(* The loop ran out: raise ValueError("YTM calculation did not converge.") *)
YtmExhausted ==
    /\ ytm.pc = "loop"
    /\ ytm.i = MaxIterations
    /\ ytm' = [ytm EXCEPT !.pc = "raised"]
    /\ call' = [call EXCEPT !.err = "ValueError"]
    /\ UNCHANGED <<bond, curve, portfolio>>

(* Bond.price_from_ytm(ytm, bond.cashflows(valuation_date), valuation_date, *)
(* bond.frequency) for a yield of the solver's range                       *)
PriceFromYtm(ytm_, valuation_date) ==
    /\ Running
    /\ bond # NoBond
    /\ cashflows(bond, valuation_date).err = "none"
    /\ call' = [op |-> "price_from_ytm", args |-> <<ytm_, valuation_date>>,
                err |-> "none",
                ret |-> price_from_ytm(ytm_, cashflows(bond, valuation_date).val,
                                       valuation_date, bond.frequency)]
    /\ UNCHANGED <<bond, curve, ytm, portfolio>>

-----------------------------------------------------------------------------
(* The curve runs: one curve is built from bounded inputs and queried.     *)

MaxPillars == 3

CurveDates == {<<2025, 1, 1>>, <<2025, 3, 1>>, <<2025, 7, 1>>, <<2026, 1, 1>>}

CurveValuationDates == {<<2025, 1, 1>>, <<2025, 3, 1>>}

AtDates == CurveDates \cup {<<2024, 12, 31>>, <<2025, 2, 1>>, <<2026, 6, 1>>}

RateChoices == {-1, 0, 6, 8, FloatInf, FloatNaN}

SeqsUpTo(S, n) == UNION {[1..k -> S] : k \in 0..n}

Mappings(K, V, n) == UNION {[D -> V] : D \in {X \in SUBSET K : Cardinality(X) <= n}}

Conventions == {ACT_365F, ACT_ACT, THIRTY_360, "INVALID"}

(* A run builds one curve (or uses the day-count module alone) and then    *)
(* queries the curve.                                                      *)
NextCurve ==
    \/ /\ call = NoCall /\ curve = NoCurve
       /\ \E v \in CurveValuationDates, pd \in SeqsUpTo(CurveDates, MaxPillars),
             zr \in SeqsUpTo(RateChoices, MaxPillars) : NewCurve(v, pd, zr)
    \/ /\ call = NoCall /\ curve = NoCurve
       /\ \E v \in CurveValuationDates,
             zc \in Mappings(CurveDates, RateChoices, MaxPillars) : FromZeroRates(v, zc)
    \/ /\ call = NoCall /\ curve = NoCurve
       /\ \E r \in RateChoices, v \in CurveValuationDates : Flat(r, v)
    \/ /\ Running /\ curve # NoCurve
       /\ \E d \in AtDates : Df(d)
    \/ /\ Running /\ curve = NoCurve
       /\ \E d1 \in AtDates, d2 \in AtDates, c \in Conventions : YearFraction(d1, d2, c)

SpecCurve == Init /\ [][NextCurve]_vars

-----------------------------------------------------------------------------
(* Claims about the discount curve (checked under SpecCurve).              *)

IsCurve == curve # NoCurve

NonDecreasingRates(c) ==
    \A i \in 1..(Len(c.zero_rates) - 1) : c.zero_rates[i] <= c.zero_rates[i + 1]

EqualRates(c) ==
    \A i \in 1..Len(c.zero_rates) : c.zero_rates[i] = c.zero_rates[1]

PillarsFromValuation(c) ==
    \A i \in 1..Len(c.pillar_dates) : DateLE(c.valuation_date, c.pillar_dates[i])

C4_DfFailsOnlyBeforeValuation ==
    (IsCurve /\ call.op = "df" /\ Len(curve.pillar_dates) >= 1) =>
        IF DateLT(call.args[1], curve.valuation_date)
        THEN call.err = "InterpolationError"
        ELSE call.err = "none" /\ 0 < call.ret.val /\ call.ret.val <= DfScale

CurveInvariant(c) ==
    /\ Len(c.pillar_dates) = Len(c.zero_rates)
    /\ \A i \in 1..(Len(c.pillar_dates) - 1) :
          DateLT(c.pillar_dates[i], c.pillar_dates[i + 1])
    /\ \A i \in 1..Len(c.zero_rates) : isfinite(c.zero_rates[i]) /\ c.zero_rates[i] >= 0
    /\ Len(c.pillar_dates) >= 1

(* The (pillar_dates, zero_rates) a constructor call was given *)
GivenPillars ==
    IF call.op = "DiscountCurve" THEN <<call.args[2], call.args[3]>>
    ELSE IF call.op = "from_zero_rates"
        THEN LET pd == SortDates(DOMAIN call.args[2])
             IN <<pd, [i \in 1..Len(pd) |-> call.args[2][pd[i]]]>>
    ELSE <<(<<call.args[2]>>), (<<call.args[1]>>)>>

(* C5 as stated: every curve a constructor returns has equally long,       *)
(* strictly increasing pillars with finite non-negative rates and at least *)
(* one pillar, and an input violating any of these (empty input included)  *)
(* fails with CurveConstructionError and produces no curve.                *)
C5_ConstructorsEnforceInvariant ==
    /\ IsCurve => CurveInvariant(curve)
    /\ (call.op \in {"DiscountCurve", "from_zero_rates", "flat"}
        /\ ~CurveInvariant([pillar_dates |-> GivenPillars[1],
                            zero_rates |-> GivenPillars[2]]))
       => call.err = "CurveConstructionError" /\ curve = NoCurve

-----------------------------------------------------------------------------
(* The bond runs: one bond is built from bounded inputs, then the curve    *)
(* the caller prices it with, then the bond is queried.                    *)

MaxTermYears == 3

BondIssueDates == {<<2024, 1, 1>>, <<2023, 2, 28>>}

BondMaturityDates ==
    {<<2023, 2, 28>>, <<2024, 2, 29>>, <<2025, 8, 31>>}
        \cup {<<2024 + k, 1, 1>> : k \in 0..MaxTermYears}

CouponRates == {-200, 0, 500}

Frequencies == {1, 2, 3, 4}

Faces == {0, 100}

BondValuationDates ==
    {<<2023, 1, 1>>, <<2023, 2, 28>>, <<2024, 1, 1>>, <<2024, 7, 1>>,
     <<2024, 10, 1>>, <<2024, 11, 15>>, <<2025, 1, 1>>, <<2025, 3, 1>>,
     <<2026, 8, 31>>, <<2027, 1, 1>>, <<2028, 6, 1>>}

PricingDates == {<<2024, 10, 1>>, <<2025, 1, 1>>, <<2025, 3, 1>>}

(* The mappings a caller builds its pricing curve from: the table of the   *)
(* tests (sample_bond.PILLAR_DATES) and a zero-rate curve.                 *)
SuppliedZeroCurves == {PILLAR_DATES, [d \in {<<2025, 1, 1>>} |-> 0]}

NextBond ==
    \/ /\ call = NoCall
       /\ \E i \in BondIssueDates, m \in BondMaturityDates, c \in CouponRates,
             f \in Frequencies, a \in Faces : NewBond(i, m, c, f, a)
    \/ /\ call.op = "Bond"
       /\ \E v \in PricingDates, zc \in SuppliedZeroCurves : FromZeroRates(v, zc)
    \/ CouponDates
    \/ \E v \in BondValuationDates : Cashflows(v)
    \/ \E v \in BondValuationDates : Accrued(v)
    \/ /\ curve # NoCurve
       /\ \E clean \in BOOLEAN : Price(curve.valuation_date, clean)

SpecBond == Init /\ [][NextBond]_vars

-----------------------------------------------------------------------------
(* Claims about the bond (checked under SpecBond).                         *)

IsBond == bond # NoBond

Schedule == get_all_coupon_dates(bond)

(* C1 as stated: price discounts every future cashflow with the discount   *)
(* factors of the curve the caller supplied: whenever that curve gives a   *)
(* factor for each cashflow date, the dirty price is the sum of            *)
(* curve.df(cf_date) * cf_amount (less accrued interest when clean).       *)
C1_PriceDiscountsOnSuppliedCurve ==
    (/\ IsBond /\ IsCurve /\ call.op = "price"
     /\ cashflows(bond, call.args[1]).err = "none"
     /\ DiscountedSum(curve, cashflows(bond, call.args[1]).val).err = "none") =>
        /\ call.err = "none"
        /\ call.ret = CleanAdjust(
                          DiscountedSum(curve, cashflows(bond, call.args[1]).val).val,
                          accrued(bond, call.args[1]), call.args[2])

(* C2 as stated: for a valuation date strictly before maturity both prices *)
(* are returned and dirty price - clean price = accrued(valuation_date).   *)
C2_DirtyMinusCleanIsAccrued ==
    (/\ IsBond /\ IsCurve /\ call.op = "price"
     /\ DateLT(call.args[1], bond.maturity_date)) =>
        /\ call.err = "none"
        /\ price(bond, curve, call.args[1], FALSE).err = "none"
        /\ price(bond, curve, call.args[1], TRUE).err = "none"
        /\ price(bond, curve, call.args[1], FALSE).val
             - price(bond, curve, call.args[1], TRUE).val
           = accrued(bond, call.args[1])

(* v lies strictly between the consecutive schedule dates number i, i + 1 *)
InPeriod(v, i) == DateLT(Schedule[i], v) /\ DateLT(v, Schedule[i + 1])

SamePeriod(v1, v2) ==
    \E i \in 1..(Len(Schedule) - 1) : InPeriod(v1, i) /\ InPeriod(v2, i)

AccruedZeroCases ==
    (\/ call.args[1] \in SeqToSet(Schedule)
     \/ DateLT(call.args[1], bond.issue_date)
     \/ DateLE(bond.maturity_date, call.args[1])) => call.ret = 0

AccruedWithinCoupon == 0 <= call.ret /\ call.ret <= CouponAmount(bond)

(* C7 as stated: accrued is 0 on a schedule date, before issue and on or   *)
(* after maturity; it lies in [0, coupon_rate * face / frequency]; and for *)
(* v1 < v2 strictly inside the same coupon period accrued(v1) <            *)
(* accrued(v2).                                                            *)
C7_AccruedStrictlyIncreasing ==
    (IsBond /\ call.op = "accrued") =>
        /\ AccruedZeroCases
        /\ AccruedWithinCoupon
        /\ \A v1 \in BondValuationDates :
              (DateLT(v1, call.args[1]) /\ SamePeriod(v1, call.args[1]))
              => accrued(bond, v1) < call.ret

(* C7 amended: as stated for coupon_rate > 0; for coupon_rate = 0 accrued  *)
(* is 0 at every valuation date.                                           *)
C7_AccruedIncreasingForPositiveCoupon ==
    (IsBond /\ call.op = "accrued") =>
        /\ AccruedZeroCases
        /\ AccruedWithinCoupon
        /\ bond.coupon_rate = 0 => call.ret = 0
        /\ bond.coupon_rate > 0 =>
              \A v1 \in BondValuationDates :
                  (DateLT(v1, call.args[1]) /\ SamePeriod(v1, call.args[1]))
                  => accrued(bond, v1) < call.ret

(* C7 witness: accrued returned for a date inside a coupon period, more    *)
(* than at an earlier date of the same period where it is positive.        *)
C7_Witness ==
    /\ IsBond /\ call.op = "accrued" /\ bond.coupon_rate > 0
    /\ \E v1 \in BondValuationDates :
          /\ DateLT(v1, call.args[1]) /\ SamePeriod(v1, call.args[1])
          /\ 0 < accrued(bond, v1) /\ accrued(bond, v1) < call.ret
    /\ call.ret < CouponAmount(bond)

(* d + relativedelta(months=12) *)
OneYearAfter(d) == SubMonths(d, -12)

MonthsStep == 12 \div bond.frequency

ScheduleShape(q) ==
    /\ \A i \in 1..(Len(q) - 1) : DateLT(q[i], q[i + 1])
    /\ q[1] = bond.issue_date
    /\ q[Len(q)] = bond.maturity_date
    /\ \A i \in 2..(Len(q) - 1) : MonthIndex(q[i + 1]) - MonthIndex(q[i]) = MonthsStep
    /\ MonthIndex(q[2]) - MonthIndex(q[1]) <= MonthsStep

(* issue on 28 February, maturity on 29 February of the next year, one     *)
(* coupon a year: the step back from maturity is clamped onto issue_date.  *)
LeapDayStub ==
    /\ bond.frequency = 1
    /\ bond.maturity_date[2] = 2 /\ bond.maturity_date[3] = 29
    /\ bond.issue_date = <<bond.maturity_date[1] - 1, 2, 28>>

(* C9 as stated: the schedule is strictly ascending from issue_date to     *)
(* maturity_date, every period but the first spans exactly 12/frequency    *)
(* months, the first at most that, and it has more than 2 dates whenever   *)
(* maturity is more than one year after issue.                             *)
C9_ScheduleShape ==
    (IsBond /\ call.op = "_get_all_coupon_dates") =>
        /\ ScheduleShape(call.ret)
        /\ DateLT(OneYearAfter(bond.issue_date), bond.maturity_date)
           => Len(call.ret) > 2

(* C9 amended: as stated, except that a frequency-1 bond issued on 28      *)
(* February and maturing on 29 February of the following year has the      *)
(* two-date schedule [issue_date, maturity_date].                          *)
C9_ScheduleShapeButLeapDayStub ==
    (IsBond /\ call.op = "_get_all_coupon_dates") =>
        /\ ScheduleShape(call.ret)
        /\ (DateLT(OneYearAfter(bond.issue_date), bond.maturity_date) /\ ~LeapDayStub)
           => Len(call.ret) > 2
        /\ LeapDayStub => call.ret = <<bond.issue_date, bond.maturity_date>>

(* C9 witness: a schedule of more than two dates whose first period is an  *)
(* irregular stub and whose days were clamped on the walk back.            *)
C9_Witness ==
    /\ IsBond /\ call.op = "_get_all_coupon_dates"
    /\ Len(call.ret) > 2
    /\ MonthIndex(call.ret[2]) - MonthIndex(call.ret[1]) < MonthsStep
    /\ call.ret[2][3] < bond.maturity_date[3]

(* C10: for valuation_date < maturity_date, cashflows returns exactly one  *)
(* entry per schedule date strictly after valuation_date, in ascending     *)
(* date order, never empty; the last is dated maturity_date and pays       *)
(* coupon + face, every other one pays the coupon.                         *)
C10_CashflowsPerFutureDate ==
    (IsBond /\ call.op = "cashflows" /\ DateLT(call.args[1], bond.maturity_date)) =>
        LET future == {d \in SeqToSet(Schedule) : DateLT(call.args[1], d)}
            n == Len(call.ret)
        IN /\ call.err = "none"
           /\ n = Cardinality(future) /\ n >= 1
           /\ {call.ret[i][1] : i \in 1..n} = future
           /\ \A i \in 1..(n - 1) : DateLT(call.ret[i][1], call.ret[i + 1][1])
           /\ call.ret[n] = <<bond.maturity_date,
                              CouponAmount(bond) + bond.face * MoneyUnits>>
           /\ \A i \in 1..(n - 1) : call.ret[i][2] = CouponAmount(bond)

(* C10 witness: cashflows called on a coupon date before maturity returns  *)
(* the later coupons and the redemption, not the coupon of that date.      *)
C10_Witness ==
    /\ IsBond /\ call.op = "cashflows" /\ call.err = "none"
    /\ call.args[1] \in SeqToSet(Schedule)
    /\ DateLT(bond.issue_date, call.args[1])
    /\ Len(call.ret) >= 2
    /\ bond.coupon_rate > 0

-----------------------------------------------------------------------------
(* The yield runs: one bond, then day-count, cashflow, closed-form price   *)
(* and yield-solve calls.                                                  *)

YtmMaturityDates == {<<2026, 1, 1>>, <<2027, 1, 1>>}

YtmCouponRates == {-200, 0, 500}

YtmValuationDates == {<<2024, 10, 1>>, <<2025, 1, 1>>, <<2027, 1, 1>>}

(* Yields whose closed-form price is offered to the solver as a target *)
RoundTripYields == {5375, 37250}

(* Quoted prices: 98.5 (the quote of the tests), 1000.0 (above the price   *)
(* at the lowest yield) and the closed-form prices of RoundTripYields.     *)
QuotedPrices(valuation_date) ==
    {98500000, 1000000000}
        \cup (IF cashflows(bond, valuation_date).err = "none"
              THEN {price_from_ytm(y, cashflows(bond, valuation_date).val,
                                   valuation_date, bond.frequency) : y \in RoundTripYields}
              ELSE {})

NextYtm ==
    \/ /\ call = NoCall
       /\ \E m \in YtmMaturityDates, c \in YtmCouponRates :
             NewBond(<<2024, 1, 1>>, m, c, 2, 100)
    \/ /\ call = NoCall
       /\ \E d1 \in AtDates, d2 \in AtDates, c \in Conventions : YearFraction(d1, d2, c)
    \/ /\ call.op = "Bond"
       /\ \E v \in YtmValuationDates : Cashflows(v)
    \/ /\ call.op = "Bond"
       /\ \E v \in YtmValuationDates, y \in RoundTripYields \cup {LowYield, 0, HighYield} :
             PriceFromYtm(y, v)
    \/ /\ call.op = "Bond" /\ IsBond
       /\ \E v \in YtmValuationDates, d \in BOOLEAN :
             \E p \in QuotedPrices(v) : YieldToMaturity(p, v, d)
    \/ YtmIterate
    \/ YtmExhausted

SpecYtm == Init /\ [][NextYtm]_vars

-----------------------------------------------------------------------------
(* Claims about error kinds and the yield solve (checked under SpecYtm).   *)

(* C6 as stated: malformed bond parameters raise BondValidationError,      *)
(* cashflows on or after maturity ValuationError, an exhausted yield solve *)
(* ConvergenceError, an unknown day-count convention                       *)
(* UnsupportedConventionError and d2 < d1 InvalidRangeError: five          *)
(* conditions, five different kinds.                                       *)
C6_DistinctErrorKinds ==
    /\ (call.op = "Bond" /\ call.err # "none") => call.err = "BondValidationError"
    /\ (call.op = "cashflows" /\ call.err # "none") => call.err = "ValuationError"
    /\ (call.op = "yield_to_maturity" /\ ytm.pc = "raised")
       => call.err = "ConvergenceError"
    /\ (call.op = "year_fraction" /\ call.err # "none") =>
          IF DateLT(call.args[2], call.args[1])
          THEN call.err = "InvalidRangeError"
          ELSE call.err = "UnsupportedConventionError"

(* The bisection of yield_to_maturity: at most 1000 midpoints, the bracket *)
(* stays inside [-0.10, 5.0] and holds every midpoint, a midpoint is       *)
(* returned only within the tolerance of the target, and the loop ends by  *)
(* raising only after 1000 midpoints.                                      *)
YtmBisectionBounded ==
    (ytm.pc # "idle") =>
        /\ ytm.i <= MaxIterations
        /\ LowYield <= ytm.low_yield /\ ytm.low_yield <= ytm.high_yield
        /\ ytm.high_yield <= HighYield
        /\ ytm.i > 0 => (ytm.low_yield <= ytm.mid_yield /\ ytm.mid_yield <= ytm.high_yield)
        /\ ytm.pc = "returned" =>
              /\ call.err = "none" /\ call.ret = ytm.mid_yield
              /\ Abs(price_from_ytm(call.ret, ytm.cfs, ytm.valuation_date, bond.frequency)
                     - ytm.dirty_price) < Tolerance
        /\ ytm.pc = "raised" => (ytm.i = MaxIterations /\ call.err # "none")

(* C8 as stated: the solve ends after at most 1000 midpoints of            *)
(* [-0.10, 5.0], returns a midpoint only within 1e-6 of the target with    *)
(* lower <= y <= upper, and otherwise fails with ConvergenceError.         *)
C8_YtmTerminatesOrConvergenceError ==
    /\ YtmBisectionBounded
    /\ ytm.pc = "raised" => call.err = "ConvergenceError"

(* A solve that returned after moving its lower bound. *)
YtmReturnedSeen == ytm.pc = "returned" /\ ytm.i >= 3 /\ ytm.low_yield > LowYield


-----------------------------------------------------------------------------
(* infra.validate_inputs, portfolio.Position, portfolio.Portfolio and the   *)
(* curve and instruments of tests/test_portfolio.py.                        *)
(*                                                                          *)
(* A Python value that reaches an isinstance test is a record [type, val]:  *)
(* a number is Num(n), a string Str(s), anything else Obj(x), each with its *)
(* own field for the value.  A side is the sequence of its characters.     *)
(* A FlatCurve rate and a bump are in basis points (units of 1/10000).      *)

BpUnits == 10 * 1000

Num(n) == [type |-> "int", val |-> n]

Str(s) == [type |-> "str", text |-> s]

Obj(x) == [type |-> "object", ref |-> x]

(* isinstance(v, (int, float)) *)
IsNumber(v) == v.type \in {"int", "float"}

(* A call without keyword arguments *)
NoKwargs == [k \in {} |-> Num(0)]

(* The wrapper of validate_inputs, before it calls func: args is the        *)
(* sequence of positional arguments, kwargs the keyword arguments by name.  *)
validate_inputs(args, kwargs) ==
    IF \E i \in 1..Len(args) : IsNumber(args[i]) /\ args[i].val < 0
        THEN "ValueError"
    ELSE IF \E k \in DOMAIN kwargs : IsNumber(kwargs[k]) /\ kwargs[k].val < 0
        THEN "ValueError"
    ELSE "none"

LowerCase ==
    <<"a", "b", "c", "d", "e", "f", "g", "h", "i", "j", "k", "l", "m",
      "n", "o", "p", "q", "r", "s", "t", "u", "v", "w", "x", "y", "z">>

UpperCase ==
    <<"A", "B", "C", "D", "E", "F", "G", "H", "I", "J", "K", "L", "M",
      "N", "O", "P", "Q", "R", "S", "T", "U", "V", "W", "X", "Y", "Z">>

(* str.upper() *)
upper(s) ==
    [i \in 1..Len(s) |->
        IF \E j \in 1..26 : LowerCase[j] = s[i]
        THEN UpperCase[CHOOSE j \in 1..26 : LowerCase[j] = s[i]]
        ELSE s[i]]

LONG == <<"L", "O", "N", "G">>

SHORT == <<"S", "H", "O", "R", "T">>

(* Position(instrument, quantity, side) *)
Position(instrument, quantity, side) ==
    [instrument |-> instrument, quantity |-> quantity, side |-> side]

SignedQuantityMutant(self) ==
    IF upper(self.side) \notin {LONG, SHORT}
        THEN [err |-> "PortfolioError", val |-> 0]
    ELSE IF ~IsNumber(self.quantity)
        THEN [err |-> "PortfolioError", val |-> 0]
    ELSE [err |-> "none", val |-> self.quantity.val]

(* Position.signed_quantity *)
signed_quantity(self) ==
    IF upper(self.side) \notin {LONG, SHORT}
        THEN [err |-> "PortfolioError", val |-> 0]
    ELSE IF ~IsNumber(self.quantity)
        THEN [err |-> "PortfolioError", val |-> 0]
    ELSE [err |-> "none",
          val |-> IF upper(self.side) = LONG
                  THEN self.quantity.val ELSE -self.quantity.val]

(* tests: FlatCurve(rate, valuation_date) *)
FlatCurve_init(rate, valuation_date) ==
    [kind |-> "FlatCurve",
     zeros |-> [d \in {valuation_date} |-> rate],
     valuation_date |-> valuation_date,
     rate |-> rate]

(* tests: FlatCurve.from_zero_rates(valuation_date, zero_rates), with       *)
(* rate = next(iter(zero_rates.values())) of a one-entry mapping            *)
FlatCurve_from_zero_rates(valuation_date, zero_rates) ==
    FlatCurve_init(zero_rates[CHOOSE d \in DOMAIN zero_rates : TRUE], valuation_date)

(* tests: FlatCurve.df(at_date) = exp(-rate * days / 365), for rate >= 0    *)
(* and at_date >= valuation_date                                            *)
FlatCurve_df(self, at_date) ==
    Discount(Rat(self.rate, BpUnits),
             Rat(DaysBetween(self.valuation_date, at_date), 365))

(* curve.df(at_date) on whichever curve class the caller passed *)
CurveDf(c, at_date) ==
    IF c.kind = "FlatCurve" THEN FlatCurve_df(c, at_date) ELSE df(c, at_date)

(* tests: DummyInstrument(pv), SingleCashflow(amount, pay_date); an object  *)
(* without a price method                                                   *)
DummyInstrument(pv_) == [kind |-> "DummyInstrument", pv |-> pv_]

SingleCashflow(amount, pay_date) ==
    [kind |-> "SingleCashflow", amount |-> amount, pay_date |-> pay_date]

Unpriced == [kind |-> "object"]

(* isinstance(instrument, PricedInstrument): the object has a price method *)
IsPricedInstrument(instrument) ==
    instrument.kind \in {"DummyInstrument", "SingleCashflow", "Bond"}

(* SingleCashflow.price: self.amount * curve.df(self.pay_date), f being    *)
(* the outcome of the df call                                               *)
SingleCashflow_price(self, f) ==
    IF f.err # "none" THEN [err |-> f.err, val |-> 0]
    ELSE [err |-> "none", val |-> MulDiv(self.amount, f.val, DfScale)]

(* instrument.price(curve, valuation_date) *)
InstrumentPrice(instrument, c, valuation_date) ==
    IF instrument.kind = "DummyInstrument"
        THEN [err |-> "none", val |-> instrument.pv]
    ELSE IF instrument.kind = "SingleCashflow"
        THEN SingleCashflow_price(instrument, CurveDf(c, instrument.pay_date))
    ELSE price(instrument, c, valuation_date, TRUE)

(* Portfolio(positions) *)
Portfolio_init(positions) ==
    IF positions = <<>> THEN Raise("PortfolioError")
    ELSE [err |-> "none", obj |-> [kind |-> "Portfolio", positions |-> positions]]


(* The for loop of Portfolio.pv over the remaining positions: the total,    *)
(* or the first exception, and the number of price calls made.  PvStep is   *)
(* one pass, p and q being the outcomes of the position's price and         *)
(* signed_quantity calls.                                                   *)
RECURSIVE PvLoop(_, _, _, _, _)
PvStep(positions, c, valuation_date, total, priced, p, q) ==
    IF ~IsPricedInstrument(Head(positions).instrument)
        THEN [err |-> "PortfolioError", val |-> 0, priced |-> priced]
    ELSE IF p.err # "none"
        THEN [err |-> p.err, val |-> 0, priced |-> priced + 1]
    ELSE IF q.err # "none"
        THEN [err |-> q.err, val |-> 0, priced |-> priced + 1]
    ELSE PvLoop(Tail(positions), c, valuation_date, total + p.val * q.val, priced + 1)

PvLoop(positions, c, valuation_date, total, priced) ==
    IF positions = <<>> THEN [err |-> "none", val |-> total, priced |-> priced]
    ELSE PvStep(positions, c, valuation_date, total, priced,
                InstrumentPrice(Head(positions).instrument, c, valuation_date),
                signed_quantity(Head(positions)))

(* Portfolio.pv(curve, valuation_date), called positionally through the     *)
(* validate_inputs wrapper                                                  *)
pv(self, c, valuation_date) ==
    IF validate_inputs(<<Obj(self), Obj(c), Obj(valuation_date)>>, NoKwargs) # "none"
        THEN [err |-> "ValueError", val |-> 0, priced |-> 0]
    ELSE PvLoop(self.positions, c, valuation_date, 0, 0)

(* _extract_zeros(curve): FlatCurve keeps its mapping in _zeros (the zeros  *)
(* field here); DiscountCurve has neither _zeros nor zeros.                 *)
extract_zeros(c) ==
    IF c.kind # "FlatCurve" THEN [err |-> "PortfolioError", val |-> <<>>]
    ELSE IF DOMAIN c.zeros = {} THEN [err |-> "PortfolioError", val |-> <<>>]
    ELSE [err |-> "none", val |-> c.zeros]

(* _parallel_bump(curve, bump_decimal) *)
parallel_bump(c, bump_decimal) ==
    LET zeros == extract_zeros(c)
        up_zeros == [d \in DOMAIN zeros.val |-> zeros.val[d] + bump_decimal]
        dn_zeros == [d \in DOMAIN zeros.val |-> zeros.val[d] - bump_decimal]
    IN IF zeros.err # "none" THEN [err |-> zeros.err, up |-> NoCurve, dn |-> NoCurve]
       ELSE [err |-> "none",
             up |-> FlatCurve_from_zero_rates(c.valuation_date, up_zeros),
             dn |-> FlatCurve_from_zero_rates(c.valuation_date, dn_zeros)]

Dv01Raise(e, bumped, priced) ==
    [err |-> e, val |-> 0, bumped |-> bumped, priced |-> priced]

(* (pv_dn - pv_up) / (2 * bump_dec) *)
Dv01Quotient(pv_dn, pv_up, bump_dec) ==
    LET diff == pv_dn - pv_up
        q == MulDiv(Abs(diff), BpUnits, 2 * bump_dec)
    IN IF diff < 0 THEN -q ELSE q

(* The end of dv01, pvs.up and pvs.dn being the outcomes of                 *)
(* self.pv(curve_up, valuation_date) and self.pv(curve_down, valuation_date) *)
Dv01Return(pvs, bump_dec) ==
    IF pvs.up.err # "none" THEN Dv01Raise(pvs.up.err, TRUE, pvs.up.priced)
    ELSE IF pvs.dn.err # "none"
        THEN Dv01Raise(pvs.dn.err, TRUE, pvs.up.priced + pvs.dn.priced)
    ELSE [err |-> "none", val |-> Dv01Quotient(pvs.dn.val, pvs.up.val, bump_dec),
          bumped |-> TRUE, priced |-> pvs.up.priced + pvs.dn.priced]

(* The body of dv01 from the bump on, b being the outcome of _parallel_bump *)
Dv01Bumped(self, valuation_date, bump_dec, b) ==
    IF b.err # "none" THEN Dv01Raise(b.err, FALSE, 0)
    ELSE Dv01Return([k \in {"up", "dn"} |-> pv(self, b[k], valuation_date)], bump_dec)

(* The bump_bp the body of dv01 sees: positional, keyword or the default 1.0 *)
BumpArgument(args, kwargs) ==
    IF Len(args) >= 4 THEN args[4].val
    ELSE IF "bump_bp" \in DOMAIN kwargs THEN kwargs["bump_bp"].val
    ELSE 1

(* Portfolio.dv01 as the caller reaches it, through the validate_inputs     *)
(* wrapper: args = (self, curve, valuation_date[, bump_bp]), kwargs may     *)
(* hold bump_bp.                                                            *)
dv01(args, kwargs) ==
    IF validate_inputs(args, kwargs) # "none" THEN Dv01Raise("ValueError", FALSE, 0)
    ELSE IF BumpArgument(args, kwargs) <= 0 THEN Dv01Raise("PortfolioError", FALSE, 0)
    ELSE Dv01Bumped(args[1].ref, args[3].ref, BumpArgument(args, kwargs),
                    parallel_bump(args[2].ref, BumpArgument(args, kwargs)))

(* Portfolio(positions) *)
NewPortfolio(positions) ==
    /\ Running
    /\ portfolio = NoPortfolio
    /\ LET r == Portfolio_init(positions)
       IN /\ portfolio' = r.obj
          /\ call' = [op |-> "Portfolio", args |-> <<positions>>,
                      err |-> r.err, ret |-> 0]
    /\ UNCHANGED <<bond, curve, ytm>>

(* tests: FlatCurve(rate, valuation_date) *)
NewFlatCurve(rate, valuation_date) ==
    /\ Running
    /\ curve = NoCurve
    /\ curve' = FlatCurve_init(rate, valuation_date)
    /\ call' = [op |-> "FlatCurve", args |-> <<rate, valuation_date>>,
                err |-> "none", ret |-> 0]
    /\ UNCHANGED <<bond, ytm, portfolio>>

(* portfolio.pv(curve, valuation_date) *)
Pv(valuation_date) ==
    /\ Running
    /\ portfolio # NoPortfolio
    /\ curve # NoCurve
    /\ LET r == pv(portfolio, curve, valuation_date)
       IN call' = [op |-> "pv", args |-> <<valuation_date>>,
                   err |-> r.err, ret |-> r.val]
    /\ UNCHANGED <<bond, curve, ytm, portfolio>>

(* portfolio.dv01(curve, valuation_date, bump_bp), portfolio.dv01(curve,    *)
(* valuation_date, bump_bp=bump_bp) or portfolio.dv01(curve, valuation_date) *)
Dv01(valuation_date, passed, bump_bp) ==
    /\ Running
    /\ portfolio # NoPortfolio
    /\ curve # NoCurve
    /\ LET base == <<Obj(portfolio), Obj(curve), Obj(valuation_date)>>
           args == IF passed = "positional" THEN base \o <<Num(bump_bp)>> ELSE base
           kwargs == IF passed = "keyword" THEN [k \in {"bump_bp"} |-> Num(bump_bp)]
                     ELSE NoKwargs
           r == dv01(args, kwargs)
       IN call' = [op |-> "dv01", args |-> <<valuation_date, passed, bump_bp>>,
                   err |-> r.err, ret |-> r.val,
                   bumped |-> r.bumped, priced |-> r.priced]
    /\ UNCHANGED <<bond, curve, ytm, portfolio>>


-----------------------------------------------------------------------------
(* The portfolio runs: one portfolio of bounded positions, one curve, then  *)
(* pv and dv01 calls.                                                       *)

MaxPositions == 2

PortfolioDate == <<2025, 1, 1>>

(* The bond of the tests (sample_bond) *)
SampleBond == Bond_init(<<2024, 1, 1>>, <<2027, 1, 1>>, 500, 2, 100).obj

(* The positions of the tests, and positions with a lower-case or mixed     *)
(* side, a bond, a negative quantity, an unknown side, a quantity that is   *)
(* not a number and an instrument without price().                          *)
PositionChoices ==
    {Position(DummyInstrument(100 * MoneyUnits), Num(2), LONG),
     Position(DummyInstrument(50 * MoneyUnits), Num(1), SHORT),
     Position(SingleCashflow(100 * MoneyUnits, <<2026, 1, 1>>), Num(1), <<"l", "o", "n", "g">>),
     Position(SingleCashflow(100 * MoneyUnits, <<2026, 1, 1>>), Num(2), <<"S", "h", "o", "r", "t">>),
     Position(SampleBond, Num(1), LONG),
     Position(DummyInstrument(50 * MoneyUnits), Num(-1), LONG),
     Position(DummyInstrument(100 * MoneyUnits), Num(1), <<"B", "U", "Y">>),
     Position(DummyInstrument(100 * MoneyUnits), Str("2"), LONG),
     Position(Unpriced, Num(1), LONG)}

BumpChoices == {-2, -1, 0, 1, 2}

(* How dv01 is called: bump_bp positional, by keyword, or left to default *)
Dv01Calls == ({"positional", "keyword"} \X BumpChoices) \cup {<<"default", 1>>}

NextPortfolio ==
    \/ /\ call = NoCall
       /\ \E ps \in SeqsUpTo(PositionChoices, MaxPositions) : NewPortfolio(ps)
    \/ /\ call.op = "Portfolio"
       /\ NewFlatCurve(200, PortfolioDate)
    \/ /\ call.op = "Portfolio"
       /\ FromZeroRates(PortfolioDate, PILLAR_DATES)
    \/ /\ curve # NoCurve
       /\ Pv(PortfolioDate)
    \/ /\ curve # NoCurve
       /\ \E a \in Dv01Calls : Dv01(PortfolioDate, a[1], a[2])

SpecPortfolio == Init /\ [][NextPortfolio]_vars


-----------------------------------------------------------------------------
(* Claims about the portfolio (checked under SpecPortfolio).                *)

IsPortfolio == portfolio # NoPortfolio

(* + for LONG, - for SHORT, whatever the case of the letters *)
SideSign(side) == IF upper(side) = LONG THEN 1 ELSE -1

(* instrument.price(curve, valuation_date) * quantity of position i, signed *)
Contribution(i) ==
    InstrumentPrice(portfolio.positions[i].instrument, curve, call.args[1]).val
        * portfolio.positions[i].quantity.val * SideSign(portfolio.positions[i].side)

RECURSIVE ContributionsUpTo(_)
ContributionsUpTo(n) ==
    IF n = 0 THEN 0 ELSE ContributionsUpTo(n - 1) + Contribution(n)

(* The portfolio with every quantity multiplied by k *)
Scaled(k) ==
    [portfolio EXCEPT !.positions =
        [i \in 1..Len(portfolio.positions) |->
            [portfolio.positions[i] EXCEPT !.quantity.val = k * @]]]

(* The portfolio with the side of position i flipped *)
Flipped(i) ==
    [portfolio EXCEPT !.positions[i].side =
        IF upper(@) = LONG THEN SHORT ELSE LONG]

ScaleFactors == {-1, 0, 2}

(* C11: when pv returns, it is the sum over the positions of               *)
(* instrument.price(curve, valuation_date) * quantity, + for LONG and -     *)
(* for SHORT in any letter case; with every quantity multiplied by k it is  *)
(* k times as much, and with the side of one position flipped it changes    *)
(* by minus twice that position's contribution.                             *)
C11_PvIsSignedSum ==
    (IsPortfolio /\ call.op = "pv" /\ call.err = "none") =>
        /\ call.ret = ContributionsUpTo(Len(portfolio.positions))
        /\ \A k \in ScaleFactors :
              /\ pv(Scaled(k), curve, call.args[1]).err = "none"
              /\ pv(Scaled(k), curve, call.args[1]).val = k * call.ret
        /\ \A i \in 1..Len(portfolio.positions) :
              /\ pv(Flipped(i), curve, call.args[1]).err = "none"
              /\ pv(Flipped(i), curve, call.args[1]).val
                    = call.ret - 2 * Contribution(i)

(* C11 witness: pv returned for two positions, a long one with a           *)
(* lower-case side priced off the curve and a short one, whose              *)
(* contributions have opposite signs.                                       *)
C11_Witness ==
    /\ IsPortfolio /\ call.op = "pv" /\ call.err = "none"
    /\ Len(portfolio.positions) = 2
    /\ portfolio.positions[1].side = <<"l", "o", "n", "g">>
    /\ portfolio.positions[1].instrument.kind = "SingleCashflow"
    /\ upper(portfolio.positions[2].side) = SHORT
    /\ Contribution(1) > 0 /\ Contribution(2) < 0
    /\ call.ret = Contribution(1) + Contribution(2)
    /\ call.ret # 0

(* C12 as stated: dv01 called with a bump_bp <= 0, positionally or by       *)
(* keyword, fails with PortfolioError before any curve is bumped or any     *)
(* instrument is priced.                                                    *)
C12_Dv01RejectsNonPositiveBump ==
    (/\ IsPortfolio /\ call.op = "dv01"
     /\ call.args[2] \in {"positional", "keyword"}
     /\ call.args[3] <= 0) =>
        /\ call.err = "PortfolioError"
        /\ ~call.bumped
        /\ call.priced = 0


-----------------------------------------------------------------------------
(* Bond.from_quote                                                          *)

(* A float stored in an attribute that may also hold None *)
Float(y) == [kind |-> "float", val |-> y]

StoreYtmMutant(self, y) == self

(* bond.ytm = <the yield yield_to_maturity returned> *)
StoreYtm(self, y) == [self EXCEPT !.ytm = Float(y)]

(* Bond.from_quote(clean_price, valuation_date, **kwargs) up to the loop of *)
(* bond.yield_to_maturity(clean_price, valuation_date, is_dirty=False); the *)
(* bond is the local one until from_quote returns it.                       *)
FromQuote(clean_price, valuation_date, issue_date, maturity_date, coupon_rate, frequency, face) ==
    /\ Running
    /\ bond = NoBond
    /\ LET r == Bond_init(issue_date, maturity_date, coupon_rate, frequency, face)
           dirty_price == clean_price + accrued(r.obj, valuation_date)
           cfs == cashflows(r.obj, valuation_date)
           args == <<clean_price, valuation_date, issue_date, maturity_date,
                     coupon_rate, frequency, face>>
       IN IF r.err # "none"
          THEN /\ bond' = NoBond
               /\ call' = [op |-> "from_quote", args |-> args, err |-> r.err, ret |-> 0]
               /\ ytm' = NoLoop
          ELSE IF cfs.err # "none"
          THEN /\ bond' = r.obj
               /\ call' = [op |-> "from_quote", args |-> args, err |-> cfs.err, ret |-> 0]
               /\ ytm' = NoLoop
          ELSE IF cfs.val = <<>>
          THEN /\ bond' = StoreYtm(r.obj, 0)
               /\ call' = [op |-> "from_quote", args |-> args, err |-> "none", ret |-> 0]
               /\ ytm' = [pc |-> "stored"]
          ELSE /\ bond' = r.obj
               /\ call' = [op |-> "from_quote", args |-> args, err |-> "none", ret |-> 0]
               /\ ytm' = [pc |-> "loop", i |-> 0,
                          low_yield |-> LowYield, high_yield |-> HighYield,
                          mid_yield |-> 0, price_at_mid |-> 0,
                          dirty_price |-> dirty_price, cfs |-> cfs.val,
                          valuation_date |-> valuation_date]
    /\ UNCHANGED <<curve, portfolio>>

(* The solve returned inside from_quote: store the yield, return the bond. *)
FromQuoteStore ==
    /\ call.op = "from_quote"
    /\ ytm.pc = "returned"
    /\ bond' = StoreYtm(bond, call.ret)
    /\ ytm' = [ytm EXCEPT !.pc = "stored"]
    /\ UNCHANGED <<curve, call, portfolio>>

-----------------------------------------------------------------------------
(* The quote runs: a bond is built by the primary constructor or by         *)
(* from_quote, then the bond and a curve are queried.                       *)

QuoteMaturityDates == {<<2023, 1, 1>>, <<2026, 1, 1>>}

QuoteCouponRates == {0, 500}

QuoteValuationDates == {<<2024, 10, 1>>, <<2026, 1, 1>>}

(* Clean quotes: 1000.0, which no yield of the bracket reaches, and the     *)
(* closed-form price at a yield of RoundTripYields less accrued interest.   *)
CleanQuotes(b, valuation_date) ==
    {1000 * MoneyUnits}
        \cup (IF b # None /\ cashflows(b, valuation_date).err = "none"
              THEN {price_from_ytm(y, cashflows(b, valuation_date).val,
                                   valuation_date, b.frequency)
                        - accrued(b, valuation_date) : y \in RoundTripYields}
              ELSE {})

(* from_quote has its yield and has not stored it yet *)
QuotePending == call.op = "from_quote" /\ ytm.pc = "returned"

NextQuote ==
    \/ /\ call = NoCall
       /\ \E m \in QuoteMaturityDates, c \in QuoteCouponRates :
             NewBond(<<2024, 1, 1>>, m, c, 2, 100)
    \/ /\ call = NoCall
       /\ \E m \in QuoteMaturityDates, c \in QuoteCouponRates, v \in QuoteValuationDates :
             \E p \in CleanQuotes(Bond_init(<<2024, 1, 1>>, m, c, 2, 100).obj, v) :
                 FromQuote(p, v, <<2024, 1, 1>>, m, c, 2, 100)
    \/ FromQuoteStore
    \/ /\ ~QuotePending /\ bond # NoBond /\ curve = NoCurve
       /\ FromZeroRates(<<2024, 10, 1>>, PILLAR_DATES)
    \/ /\ ~QuotePending /\ curve # NoCurve
       /\ \E d \in {<<2024, 1, 1>>, <<2025, 7, 1>>} : Df(d)
    \/ /\ ~QuotePending
       /\ \E v \in QuoteValuationDates : Cashflows(v)
    \/ /\ ~QuotePending
       /\ \E v \in QuoteValuationDates : Accrued(v)
    \/ /\ ~QuotePending /\ curve # NoCurve
       /\ \E clean \in BOOLEAN : Price(curve.valuation_date, clean)
    \/ /\ ~QuotePending /\ bond # NoBond
       /\ \E y \in RoundTripYields : PriceFromYtm(y, <<2024, 10, 1>>)
    \/ /\ ~QuotePending /\ bond # NoBond /\ curve = NoCurve
       /\ \E v \in QuoteValuationDates :
             \E p \in CleanQuotes(bond, v) : YieldToMaturity(p, v, FALSE)
    \/ YtmIterate
    \/ YtmExhausted

SpecQuote == Init /\ [][NextQuote]_vars


-----------------------------------------------------------------------------
(* Claims about object state (checked under SpecQuote).                     *)

(* The calls the claim says leave the curve and the bond as they are *)
QueryOps == {"df", "cashflows", "accrued", "price", "yield_to_maturity",
             "price_from_ytm"}

(* from_quote has returned its bond to the caller *)
FromQuoteReturned == call.op = "from_quote" /\ call.err = "none" /\ ytm.pc = "stored"

(* The dirty target of the solve inside from_quote *)
QuoteTarget == call.args[1] + accrued(bond, call.args[2])

(* In every state: a bond of the primary constructor has ytm None, a bond   *)
(* from_quote returned holds a yield of the bracket that prices its         *)
(* cashflows within the tolerance of clean_price + accrued, and a           *)
(* from_quote that failed left no ytm behind.                               *)
YtmOnlyFromQuote ==
    /\ (call.op = "Bond" /\ call.err = "none") => bond.ytm = None
    /\ FromQuoteReturned =>
          /\ bond.ytm = Float(call.ret)
          /\ LowYield <= call.ret /\ call.ret <= HighYield
          /\ Abs(price_from_ytm(call.ret, cashflows(bond, call.args[2]).val,
                                call.args[2], bond.frequency) - QuoteTarget) < Tolerance
    /\ (call.op = "from_quote" /\ ~FromQuoteReturned /\ bond # NoBond)
          => bond.ytm = None

(* In every step: a query call, returning or failing, leaves the curve and  *)
(* the bond as they are; an existing bond changes only in ytm, only from    *)
(* None, and only in a step of from_quote.                                  *)
QueriesKeepObjects ==
    /\ call'.op \in QueryOps => (bond' = bond /\ curve' = curve)
    /\ (bond # NoBond /\ bond' # bond) =>
          /\ call'.op = "from_quote"
          /\ bond.ytm = None /\ bond'.ytm # None
          /\ bond' = [bond EXCEPT !.ytm = bond'.ytm]
    /\ (curve # NoCurve) => curve' = curve

(* C13: df, cashflows, accrued, price, yield_to_maturity and                *)
(* price_from_ytm never change an attribute of the curve or the bond; ytm   *)
(* is None after the primary constructor and is assigned once, only by      *)
(* from_quote, which returns a bond only with the solved yield for          *)
(* clean_price + accrued stored in it.                                      *)
C13_ObjectsImmutableButYtm == [](YtmOnlyFromQuote) /\ [][QueriesKeepObjects]_vars

(* C13 witness: a bond from_quote returned, then priced on a curve, still   *)
(* holding the yield it was given.                                          *)
C13_Witness ==
    /\ bond # NoBond /\ bond.ytm # None /\ bond.ytm.val > 0
    /\ call.op = "price" /\ call.err = "none"
    /\ ytm.pc = "stored"

=============================================================================
